---- MODULE Spec2Model ----
(***************************************************************************)
(* Model of relay/controller/text.go: the text relay helper                *)
(* (RelayTextHelper), its response tap (responseBodyLogWriter) and the     *)
(* detached settlement goroutine (go postConsumeQuota).                    *)
(*                                                                         *)
(* Spec     one relay call from entry to return, plus the goroutine it     *)
(*          starts; DoResponse writes the response through the tap from    *)
(*          the request task.                                              *)
(* SpecTap  the tap alone, written to by several execution contexts.       *)
(***************************************************************************)
EXTENDS Integers, Sequences, FiniteSets, TLC

\* ---------------------------------------------------------------- bounds
MaxBalance == 3
MaxPromptTokens == 1
MaxRatio == 2
MaxUsage == 2
MaxWrites == 3
MaxText == 3
NumCtx == 2

\* fixed per-call margin added to every reservation
Margin == 1

\* http.StatusBadRequest, http.StatusInternalServerError, http.StatusOK
StatusBadRequest == 400
StatusInternalServerError == 500
StatusOK == 200

VARIABLES
    pc,                \* position of RelayTextHelper
    ret,               \* value RelayTextHelper returned (Pending before)
    apiType,           \* meta.APIType
    isStream,          \* meta.IsStream / writer.isStream
    balance,           \* account balance held by the ledger
    balance0,          \* balance when the call started
    preConsumedQuota,  \* amount reserved by preConsumeQuota
    ratio,             \* modelRatio * groupRatio
    bizErr,            \* error returned by preConsumeQuota
    resp,              \* response returned by adaptor.DoRequest
    usage,             \* usage returned by adaptor.DoResponse
    respErr,           \* error returned by adaptor.DoResponse
    failedAt,          \* the stage whose failure ended the call ("none" so far)
    settle,            \* state of the goroutine running postConsumeQuota
    nReserve,          \* successful preConsumeQuota calls
    nRelease,          \* billing.ReturnPreConsumedQuota calls
    released,          \* total amount handed to ReturnPreConsumedQuota
    nSettle,           \* go postConsumeQuota statements executed
    nAdaptor,          \* adaptor operations (Init, ConvertRequest, DoRequest, DoResponse)
    nDoRequest,        \* adaptor.DoRequest calls
    nDoResponse,       \* adaptor.DoResponse calls
    nRead,             \* reads of responseBodyBuffer by the logging path
    body,              \* writer.body: the accumulated bytes
    sinkIn,            \* bytes handed to the wrapped ResponseWriter, in order
    delivered,         \* bytes the wrapped ResponseWriter accepted
    streamMux,         \* writer.streamMux: 0 when free, else the holder
    wpc,               \* position of each execution context inside Write/WriteString
    wchunk,            \* argument of the call in progress
    wsnap,             \* buffer contents read by body.Write before it appends
    wres,              \* result of the call in progress: <<n, err>>
    sinkRes,           \* result the wrapped ResponseWriter gave for that chunk
    passed,            \* bytes passed to the tap, in call order
    overlapped,        \* some call started while another was in progress
    nWrites,           \* calls of Write/WriteString so far
    logged,            \* content logResponseBody wrote to the log
    rawBody,           \* bytes of the inbound request body
    modelMapping,      \* meta.ModelMapping
    channelType,       \* meta.ChannelType
    textRequest,       \* the canonical request (textRequest)
    originModelName,   \* meta.OriginModelName
    actualModelName,   \* meta.ActualModelName
    isModelMapped,     \* isModelMapped
    nModelAssign,      \* assignments to textRequest.Model
    requestBody,       \* bytes handed to adaptor.DoRequest
    nConvert,          \* adaptor.ConvertRequest calls
    otherMux           \* streamMux of the tap another relay call created

ledgerVars == <<balance, balance0, preConsumedQuota, ratio, bizErr>>
callVars == <<pc, ret, apiType, isStream, resp, usage, respErr, failedAt>>
countVars == <<nReserve, nRelease, released, nSettle, nAdaptor, nDoRequest, nDoResponse, nRead>>
tapVars == <<body, sinkIn, delivered, streamMux, wpc, wchunk, wsnap, wres, sinkRes, passed, overlapped, nWrites>>
reqIn == <<rawBody, modelMapping, channelType>>
reqVars == <<textRequest, originModelName, actualModelName, isModelMapped, nModelAssign, requestBody, nConvert>>
vars == <<ledgerVars, callVars, countVars, tapVars, settle, logged, reqIn, reqVars, otherMux>>

\* ------------------------------------------------------------ value sets
Ctx == 1..NumCtx
\* the request task is execution context 1
RequestTask == {1}

\* chunks a caller may pass to Write / WriteString, as byte sequences
Chunks == {<<1>>, <<2, 3>>}

Pending == [code |-> "pending", status |-> 0, msg |-> ""]
Nil == [code |-> "nil", status |-> 0, msg |-> ""]
NoResp == [status |-> 0, envelope |-> FALSE]
NoRes == <<-1, FALSE>>

\* responses adaptor.DoRequest may return
Responses ==
    { [status |-> StatusOK, envelope |-> FALSE],
      [status |-> StatusOK, envelope |-> TRUE],
      [status |-> StatusInternalServerError, envelope |-> FALSE] }

\* errors adaptor.DoResponse may return
RespErrors ==
    { [code |-> "bad_response", status |-> StatusInternalServerError, msg |-> "adaptor"],
      [code |-> "bad_response_status_code", status |-> StatusBadRequest, msg |-> "adaptor"] }

\* errors the ledger may return from preConsumeQuota
InsufficientBalance == [code |-> "insufficient_user_quota", status |-> 403, msg |-> "ledger"]

\* ------------------------------------------------------- pure operators
\* openai.ErrorWrapper(err, code, statusCode)
ErrorWrapper(err, code, statusCode) == [code |-> code, status |-> statusCode, msg |-> err]

\* isErrorHappened(meta, resp)
isErrorHappened(r) == r.status # StatusOK \/ r.envelope

\* RelayErrorHandler(resp)
RelayErrorHandler(r) == [code |-> "upstream_error", status |-> r.status, msg |-> "upstream"]

\* QuotaLedger.Reserve amount: promptTokens * modelRatio * groupRatio plus margin
PreConsumedAmount(promptTokens, modelRatio, groupRatio) ==
    promptTokens * modelRatio * groupRatio + Margin

\* QuotaLedger.Reserve
Reserve(bal, amount) ==
    IF bal < amount
    THEN [ok |-> FALSE, balance |-> bal]
    ELSE [ok |-> TRUE, balance |-> bal - amount]

\* QuotaLedger.Release
Release(bal, amount) == bal + amount

\* QuotaLedger.Settle
Settle(bal, reserved, actual) == bal + reserved - actual

\* ------------------------------------------------------ request bodies
\* A body is what its JSON says: the model, whether it carries fields or
\* formatting the canonical request does not keep, and whose wire format
\* it is.
NoRequest == [model |-> "", form |-> "none"]
NoBody == [model |-> "", extra |-> FALSE, form |-> "none"]

\* inbound bodies
RawBodies == [model : {"gpt-x", "gpt-y"}, extra : BOOLEAN, form : {"openai"}]

\* mapping tables: absent, a rename, the identity
ModelMappings ==
    { [n \in {} |-> ""], [n \in {"gpt-x"} |-> "gpt-x-2024"], [n \in {"gpt-x"} |-> "gpt-x"] }

\* getAndValidateTextRequest: the canonical request of a valid body
ParseRequest(raw) == [model |-> raw.model, form |-> "openai"]

\* getMappedModelName(name, mapping) -> (effectiveName, wasRemapped)
getMappedModelName(name, mapping) ==
    IF name \in DOMAIN mapping
    THEN <<mapping[name], mapping[name] # name>>
    ELSE <<name, FALSE>>

\* json.Marshal of a request struct: only the struct's fields
Marshal(req) == [model |-> req.model, extra |-> FALSE, form |-> req.form]

\* adaptor.ConvertRequest(c, meta.Mode, textRequest)
ConvertRequest(req) == [model |-> req.model, form |-> "backend"]

\* getRequestBody that always forwards the inbound bytes to OpenAI
getRequestBody_AlwaysRaw(api, channel, req, raw, mapped) ==
    IF api = "OpenAI"
    THEN [requestBody |-> raw, nConvert |-> 0]
    ELSE [requestBody |-> Marshal(ConvertRequest(req)), nConvert |-> 1]

\* getRequestBody (133-176) when no step of it fails: the body and the
\* number of ConvertRequest calls
getRequestBody(api, channel, req, raw, mapped) ==
    IF api = "OpenAI"
    THEN LET shouldResetRequestBody == mapped \/ channel = "Baichuan"
         IN  [requestBody |-> IF shouldResetRequestBody THEN Marshal(req) ELSE raw,
              nConvert |-> 0]
    ELSE [requestBody |-> Marshal(ConvertRequest(req)), nConvert |-> 1]

\* ------------------------------------------------- captured text, JSON
\* JSON values as json.Unmarshal builds them in interface{}
Str(s) == [t |-> "string", s |-> s]
Null == [t |-> "null"]
Obj(f) == [t |-> "object", f |-> f]
Arr(a) == [t |-> "array", a |-> a]

\* m[k] on a map[string]interface{}: a missing key gives nil
Get(o, k) == IF k \in DOMAIN o.f THEN o.f[k] ELSE Null

\* The captured text is a sequence of tokens; token i stands for the text
\* described by TokenTable[i]:
\*   1  data:<space>                        the data-frame delimiter
\*   2  {"choices":[{"delta":{"content":"Hel"}}]}
\*   3  \n\n                                white space
\*   4  [DONE]
\*   5  {"choi                              not JSON
\*   6  {"choices":[{"delta":{"content":"l"}},{"delta":{"role":"assistant"}},
\*                  "x",{"delta":{"content":"o"}}]}
\*   7  {"choices":[{"message":{"content":"ok"}},{"message":{"content":"second"}}]}
\*   8  {"choices":[]}
\*   9  {"choices":["x"]}
\*  10  {"choices":[{"message":"x","delta":"x"}]}
\*  11  {"choices":[{"message":{"content":null},"delta":{"content":null}}]}
\*  12  {"id":"x"}
\*  13  ["x"]                               JSON, but not an object
TokenTable ==
    << [kind |-> "delim"],
       [kind |-> "json", v |-> Obj([choices |-> Arr(<<
            Obj([delta |-> Obj([content |-> Str("Hel")])]) >>)])],
       [kind |-> "space"],
       [kind |-> "done"],
       [kind |-> "garbage"],
       [kind |-> "json", v |-> Obj([choices |-> Arr(<<
            Obj([delta |-> Obj([content |-> Str("l")])]),
            Obj([delta |-> Obj([role |-> Str("assistant")])]),
            Str("x"),
            Obj([delta |-> Obj([content |-> Str("o")])]) >>)])],
       [kind |-> "json", v |-> Obj([choices |-> Arr(<<
            Obj([message |-> Obj([content |-> Str("ok")])]),
            Obj([message |-> Obj([content |-> Str("second")])]) >>)])],
       [kind |-> "json", v |-> Obj([choices |-> Arr(<< >>)])],
       [kind |-> "json", v |-> Obj([choices |-> Arr(<< Str("x") >>)])],
       [kind |-> "json", v |-> Obj([choices |-> Arr(<<
            Obj([message |-> Str("x"), delta |-> Str("x")]) >>)])],
       [kind |-> "json", v |-> Obj([choices |-> Arr(<<
            Obj([message |-> Obj([content |-> Null]), delta |-> Obj([content |-> Null])]) >>)])],
       [kind |-> "json", v |-> Obj([id |-> Str("x")])],
       [kind |-> "json", v |-> Arr(<< Str("x") >>)] >>

Tokens == DOMAIN TokenTable

IsKind(tok, kind) == TokenTable[tok].kind = kind

\* strings.TrimSpace
RECURSIVE TrimLeft(_)
TrimLeft(text) ==
    IF text # <<>> /\ IsKind(Head(text), "space") THEN TrimLeft(Tail(text)) ELSE text

RECURSIVE TrimRight(_)
TrimRight(text) ==
    IF text # <<>> /\ IsKind(text[Len(text)], "space")
    THEN TrimRight(SubSeq(text, 1, Len(text) - 1))
    ELSE text

TrimSpace(text) == TrimRight(TrimLeft(text))

\* strings.Split(content, "data: "): the pieces between delimiters, empty
\* pieces included
RECURSIVE SplitFrom(_, _, _)
SplitFrom(text, cur, acc) ==
    IF text = <<>> THEN Append(acc, cur)
    ELSE IF IsKind(Head(text), "delim")
         THEN SplitFrom(Tail(text), <<>>, Append(acc, cur))
         ELSE SplitFrom(Tail(text), Append(cur, Head(text)), acc)

Split(text) == SplitFrom(text, <<>>, <<>>)

\* json.Unmarshal([]byte(text), &jsonData) with jsonData a
\* map[string]interface{}: white space around one JSON object is accepted,
\* anything else is an error
Unmarshal(text) ==
    LET doc == TrimSpace(text)
    IN  IF /\ Len(doc) = 1
           /\ IsKind(doc[1], "json")
           /\ TokenTable[doc[1]].v.t = "object"
        THEN [err |-> FALSE, v |-> TokenTable[doc[1]].v]
        ELSE [err |-> TRUE, v |-> Null]

\* extractContentFromResponse with one generic placeholder for a malformed
\* choice or message
extractContentFromResponse_Generic(responseBody) ==
    LET jsonData == Unmarshal(responseBody)
    IN  IF jsonData.err THEN "Failed to parse response JSON"
        ELSE LET choices == Get(jsonData.v, "choices")
        IN  IF choices.t # "array" \/ Len(choices.a) = 0
            THEN "No content found in response"
            ELSE LET choice == choices.a[1]
            IN  IF choice.t # "object" THEN "No content found in response"
                ELSE LET message == Get(choice, "message")
                IN  IF message.t # "object" THEN "No content found in response"
                    ELSE LET content == Get(message, "content")
                    IN  IF content.t # "string"
                        THEN "No content field found in message"
                        ELSE content.s

\* lines 197-224
extractContentFromResponse(responseBody) ==
    LET jsonData == Unmarshal(responseBody)
    IN  IF jsonData.err THEN "Failed to parse response JSON"
        ELSE LET choices == Get(jsonData.v, "choices")
        IN  IF choices.t # "array" \/ Len(choices.a) = 0
            THEN "No content found in response"
            ELSE LET choice == choices.a[1]
            IN  IF choice.t # "object" THEN "Invalid choice format in response"
                ELSE LET message == Get(choice, "message")
                IN  IF message.t # "object" THEN "Invalid message format in response"
                    ELSE LET content == Get(message, "content")
                    IN  IF content.t # "string"
                        THEN "No content field found in message"
                        ELSE content.s

\* lines 252-268: the loop over the choices of one chunk
RECURSIVE ChoicesLoop(_, _, _)
ChoicesLoop(choices, i, combinedContent) ==
    IF i > Len(choices) THEN combinedContent
    ELSE LET choiceMap == choices[i]
         IN  IF choiceMap.t # "object" THEN ChoicesLoop(choices, i + 1, combinedContent)
             ELSE LET delta == Get(choiceMap, "delta")
             IN  IF delta.t # "object" THEN ChoicesLoop(choices, i + 1, combinedContent)
                 ELSE LET contentPiece == Get(delta, "content")
                 IN  IF contentPiece.t = "string"
                     THEN ChoicesLoop(choices, i + 1, combinedContent \o contentPiece.s)
                     ELSE ChoicesLoop(choices, i + 1, combinedContent)

\* ChunksLoop that stops at the first chunk that is not valid JSON
RECURSIVE ChunksLoop_BreakOnError(_, _, _)
ChunksLoop_BreakOnError(chunks, i, combinedContent) ==
    IF i > Len(chunks) THEN combinedContent
    ELSE LET chunk == TrimSpace(chunks[i])
         IN  IF chunk = <<>> \/ (Len(chunk) = 1 /\ IsKind(chunk[1], "done"))
             THEN ChunksLoop_BreakOnError(chunks, i + 1, combinedContent)
             ELSE LET jsonData == Unmarshal(chunk)
             IN  IF jsonData.err THEN combinedContent
                 ELSE LET choices == Get(jsonData.v, "choices")
                 IN  IF choices.t # "array" \/ Len(choices.a) = 0
                     THEN ChunksLoop_BreakOnError(chunks, i + 1, combinedContent)
                     ELSE ChunksLoop_BreakOnError(chunks, i + 1,
                                                  ChoicesLoop(choices.a, 1, combinedContent))

\* lines 233-269: the loop over the chunks
RECURSIVE ChunksLoop(_, _, _)
ChunksLoop(chunks, i, combinedContent) ==
    IF i > Len(chunks) THEN combinedContent
    ELSE LET chunk == TrimSpace(chunks[i])
         IN  IF chunk = <<>> \/ (Len(chunk) = 1 /\ IsKind(chunk[1], "done"))
             THEN ChunksLoop(chunks, i + 1, combinedContent)
             ELSE LET jsonData == Unmarshal(chunk)
             IN  IF jsonData.err THEN ChunksLoop(chunks, i + 1, combinedContent)
                 ELSE LET choices == Get(jsonData.v, "choices")
                 IN  IF choices.t # "array" \/ Len(choices.a) = 0
                     THEN ChunksLoop(chunks, i + 1, combinedContent)
                     ELSE ChunksLoop(chunks, i + 1, ChoicesLoop(choices.a, 1, combinedContent))

\* lines 227-272
extractContentFromStream(content) == ChunksLoop(Split(content), 1, "")

\* lines 179-194: the content written to the log
logResponseBody(responseBody, stream) ==
    IF responseBody = <<>> THEN "Empty response body"
    ELSE IF stream
         THEN extractContentFromStream(responseBody)
         ELSE extractContentFromResponse(responseBody)

\* captured texts of at most n tokens
RECURSIVE TextsUpTo(_)
TextsUpTo(n) ==
    IF n = 0 THEN {<<>>}
    ELSE LET shorter == TextsUpTo(n - 1)
         IN  shorter \cup {Append(x, tok) : x \in shorter, tok \in Tokens}

\* data: {..Hel..}\n\ndata: {..l,o..}\n\ndata: [DONE]\n\n
ExampleStream == <<1, 2, 3, 1, 6, 3, 1, 4, 3>>

\* ------------------------------------------------------------------ Init
TapInit ==
    /\ body = <<>>
    /\ sinkIn = <<>>
    /\ delivered = <<>>
    /\ streamMux = 0
    /\ wpc = [w \in Ctx |-> "idle"]
    /\ wchunk = [w \in Ctx |-> <<>>]
    /\ wsnap = [w \in Ctx |-> <<>>]
    /\ wres = [w \in Ctx |-> NoRes]
    /\ sinkRes = [w \in Ctx |-> NoRes]
    /\ passed = <<>>
    /\ overlapped = FALSE
    /\ nWrites = 0
    /\ logged = ""
    /\ otherMux = 0

\* the request state before getAndValidateTextRequest
RequestInit ==
    /\ textRequest = NoRequest
    /\ originModelName = ""
    /\ actualModelName = ""
    /\ isModelMapped = FALSE
    /\ nModelAssign = 0
    /\ requestBody = NoBody
    /\ nConvert = 0

\* the request of the call Spec follows: a renamed model, extra fields
OneRequest ==
    /\ rawBody = [model |-> "gpt-x", extra |-> TRUE, form |-> "openai"]
    /\ modelMapping = [n \in {"gpt-x"} |-> "gpt-x-2024"]
    /\ channelType = "OpenAI"

CountInit ==
    /\ nReserve = 0
    /\ nRelease = 0
    /\ released = 0
    /\ nSettle = 0
    /\ nAdaptor = 0
    /\ nDoRequest = 0
    /\ nDoResponse = 0
    /\ nRead = 0

Init ==
    /\ pc = "Validate"
    /\ ret = Pending
    /\ apiType \in {"OpenAI", "Other", "Unknown"}
    /\ isStream = FALSE
    /\ balance0 \in 0..MaxBalance
    /\ balance = balance0
    /\ preConsumedQuota = 0
    /\ ratio = 0
    /\ bizErr = Nil
    /\ resp = NoResp
    /\ usage = 0
    /\ respErr = Nil
    /\ failedAt = "none"
    /\ settle = "none"
    /\ CountInit
    /\ TapInit
    /\ OneRequest
    /\ RequestInit

\* --------------------------------------------------- RelayTextHelper
\* Validate with the early return of line 59 missing
Validate_FallThrough ==
    /\ pc = "Validate"
    /\ \E ok \in BOOLEAN, stream \in BOOLEAN :
        /\ isStream' = stream
        /\ pc' = "PreConsume"
        /\ failedAt' = IF ok THEN failedAt ELSE "validate"
        /\ ret' = ret
        /\ textRequest' = ParseRequest(rawBody)
    /\ UNCHANGED <<originModelName, actualModelName, isModelMapped, nModelAssign, requestBody, nConvert>>
    /\ UNCHANGED <<apiType, resp, usage, respErr>>
    /\ UNCHANGED <<ledgerVars, countVars, tapVars, settle>>
    /\ UNCHANGED logged
    /\ UNCHANGED reqIn
    /\ UNCHANGED otherMux

\* lines 53-70: getAndValidateTextRequest, then wrap c.Writer in the tap
Validate ==
    /\ pc = "Validate"
    /\ \E ok \in BOOLEAN, stream \in BOOLEAN :
        IF ok
        THEN /\ isStream' = stream
             /\ textRequest' = ParseRequest(rawBody)
             /\ pc' = "PreConsume"
             /\ UNCHANGED <<ret, failedAt>>
        ELSE /\ ret' = ErrorWrapper("validate", "invalid_text_request", StatusBadRequest)
             /\ failedAt' = "validate"
             /\ pc' = "done"
             /\ UNCHANGED <<isStream, textRequest>>
    /\ UNCHANGED <<originModelName, actualModelName, isModelMapped, nModelAssign, requestBody, nConvert>>
    /\ UNCHANGED <<apiType, resp, usage, respErr>>
    /\ UNCHANGED <<ledgerVars, countVars, tapVars, settle>>
    /\ UNCHANGED logged
    /\ UNCHANGED reqIn
    /\ UNCHANGED otherMux

\* PreConsume that records the requested name as meta.ActualModelName
PreConsume_ActualIsOrigin ==
    /\ pc = "PreConsume"
    /\ LET mapped == getMappedModelName(textRequest.model, modelMapping)
       IN  /\ originModelName' = textRequest.model
           /\ textRequest' = [textRequest EXCEPT !.model = mapped[1]]
           /\ isModelMapped' = mapped[2]
           /\ actualModelName' = textRequest.model
           /\ nModelAssign' = nModelAssign + 1
    /\ UNCHANGED <<requestBody, nConvert>>
    /\ \E promptTokens \in 0..MaxPromptTokens, modelRatio \in 1..MaxRatio :
        LET amount == PreConsumedAmount(promptTokens, modelRatio, 1)
            r == Reserve(balance, amount)
        IN  /\ ratio' = modelRatio * 1
            /\ IF r.ok
               THEN /\ balance' = r.balance
                    /\ preConsumedQuota' = amount
                    /\ nReserve' = nReserve + 1
                    /\ pc' = "GetAdaptor"
                    /\ UNCHANGED <<bizErr, ret, failedAt>>
               ELSE /\ bizErr' = InsufficientBalance
                    /\ failedAt' = "reserve"
                    /\ ret' = bizErr'
                    /\ pc' = "done"
                    /\ UNCHANGED <<balance, preConsumedQuota, nReserve>>
    /\ UNCHANGED <<balance0, apiType, isStream, resp, usage, respErr>>
    /\ UNCHANGED <<nRelease, released, nSettle, nAdaptor, nDoRequest, nDoResponse, nRead>>
    /\ UNCHANGED <<tapVars, settle>>
    /\ UNCHANGED logged
    /\ UNCHANGED reqIn
    /\ UNCHANGED otherMux

\* lines 72-88: map the model, compute the ratio and pre-consume quota
PreConsume ==
    /\ pc = "PreConsume"
    /\ LET mapped == getMappedModelName(textRequest.model, modelMapping)
       IN  /\ originModelName' = textRequest.model
           /\ textRequest' = [textRequest EXCEPT !.model = mapped[1]]
           /\ isModelMapped' = mapped[2]
           /\ actualModelName' = textRequest'.model
           /\ nModelAssign' = nModelAssign + 1
    /\ UNCHANGED <<requestBody, nConvert>>
    /\ \E promptTokens \in 0..MaxPromptTokens, modelRatio \in 1..MaxRatio :
        LET amount == PreConsumedAmount(promptTokens, modelRatio, 1)
            r == Reserve(balance, amount)
        IN  /\ ratio' = modelRatio * 1
            /\ IF r.ok
               THEN /\ balance' = r.balance
                    /\ preConsumedQuota' = amount
                    /\ nReserve' = nReserve + 1
                    /\ pc' = "GetAdaptor"
                    /\ UNCHANGED <<bizErr, ret, failedAt>>
               ELSE /\ bizErr' = InsufficientBalance
                    /\ failedAt' = "reserve"
                    /\ ret' = bizErr'
                    /\ pc' = "done"
                    /\ UNCHANGED <<balance, preConsumedQuota, nReserve>>
    /\ UNCHANGED <<balance0, apiType, isStream, resp, usage, respErr>>
    /\ UNCHANGED <<nRelease, released, nSettle, nAdaptor, nDoRequest, nDoResponse, nRead>>
    /\ UNCHANGED <<tapVars, settle>>
    /\ UNCHANGED logged
    /\ UNCHANGED reqIn
    /\ UNCHANGED otherMux

\* lines 90-94: relay.GetAdaptor, adaptor.Init
GetAdaptor ==
    /\ pc = "GetAdaptor"
    /\ IF apiType = "Unknown"
       THEN /\ ret' = ErrorWrapper("invalid api type", "invalid_api_type", StatusBadRequest)
            /\ failedAt' = "adaptor"
            /\ pc' = "done"
            /\ UNCHANGED nAdaptor
       ELSE /\ nAdaptor' = nAdaptor + 1
            /\ pc' = "GetRequestBody"
            /\ UNCHANGED <<ret, failedAt>>
    /\ UNCHANGED <<apiType, isStream, resp, usage, respErr>>
    /\ UNCHANGED <<nReserve, nRelease, released, nSettle, nDoRequest, nDoResponse, nRead>>
    /\ UNCHANGED <<ledgerVars, tapVars, settle>>
    /\ UNCHANGED logged
    /\ UNCHANGED reqVars
    /\ UNCHANGED reqIn
    /\ UNCHANGED otherMux

\* GetRequestBody with the error of getRequestBody ignored
GetRequestBody_IgnoreError ==
    /\ pc = "GetRequestBody"
    /\ nAdaptor' = IF apiType = "OpenAI" THEN nAdaptor ELSE nAdaptor + 1
    /\ \E ok \in BOOLEAN :
        /\ pc' = "DoRequest"
        /\ failedAt' = IF ok THEN failedAt ELSE "body"
        /\ UNCHANGED ret
    /\ nConvert' = nConvert + getRequestBody(apiType, channelType, textRequest, rawBody, isModelMapped).nConvert
    /\ UNCHANGED <<textRequest, originModelName, actualModelName, isModelMapped, nModelAssign, requestBody>>
    /\ UNCHANGED <<apiType, isStream, resp, usage, respErr>>
    /\ UNCHANGED <<nReserve, nRelease, released, nSettle, nDoRequest, nDoResponse, nRead>>
    /\ UNCHANGED <<ledgerVars, tapVars, settle>>
    /\ UNCHANGED logged
    /\ UNCHANGED reqIn
    /\ UNCHANGED otherMux

\* lines 96-103 and getRequestBody (133-176): build the outbound body;
\* ConvertRequest is an adaptor operation of every API type but OpenAI
GetRequestBody ==
    /\ pc = "GetRequestBody"
    /\ nAdaptor' = IF apiType = "OpenAI" THEN nAdaptor ELSE nAdaptor + 1
    /\ LET built == getRequestBody(apiType, channelType, textRequest, rawBody, isModelMapped)
       IN  /\ nConvert' = nConvert + built.nConvert
           /\ \E ok \in BOOLEAN :
                IF ok
                THEN /\ requestBody' = built.requestBody
                     /\ pc' = "DoRequest"
                     /\ UNCHANGED <<ret, failedAt>>
                ELSE /\ ret' = ErrorWrapper("convert", "convert_request_failed", StatusInternalServerError)
                     /\ failedAt' = "body"
                     /\ pc' = "done"
                     /\ UNCHANGED requestBody
    /\ UNCHANGED <<textRequest, originModelName, actualModelName, isModelMapped, nModelAssign>>
    /\ UNCHANGED <<apiType, isStream, resp, usage, respErr>>
    /\ UNCHANGED <<nReserve, nRelease, released, nSettle, nDoRequest, nDoResponse, nRead>>
    /\ UNCHANGED <<ledgerVars, tapVars, settle>>
    /\ UNCHANGED logged
    /\ UNCHANGED reqIn
    /\ UNCHANGED otherMux

\* DoRequest whose failure path also writes the error to the client
DoRequest_WritesError ==
    /\ pc = "DoRequest"
    /\ nAdaptor' = nAdaptor + 1
    /\ nDoRequest' = nDoRequest + 1
    /\ \/ /\ ret' = ErrorWrapper("transport", "do_request_failed", StatusInternalServerError)
          /\ failedAt' = "DoRequest"
          /\ pc' = "done"
          /\ body' = body \o <<1>>
          /\ sinkIn' = sinkIn \o <<1>>
          /\ delivered' = delivered \o <<1>>
          /\ passed' = passed \o <<1>>
          /\ nWrites' = nWrites + 1
          /\ UNCHANGED resp
       \/ /\ resp' \in Responses
          /\ pc' = "CheckResp"
          /\ UNCHANGED <<ret, failedAt, body, sinkIn, delivered, passed, nWrites>>
    /\ UNCHANGED <<apiType, isStream, usage, respErr>>
    /\ UNCHANGED <<nReserve, nRelease, released, nSettle, nDoResponse, nRead>>
    /\ UNCHANGED <<streamMux, wpc, wchunk, wsnap, wres, sinkRes, overlapped>>
    /\ UNCHANGED <<ledgerVars, settle>>
    /\ UNCHANGED logged
    /\ UNCHANGED reqVars
    /\ UNCHANGED reqIn
    /\ UNCHANGED otherMux

\* lines 105-110: adaptor.DoRequest
DoRequest ==
    /\ pc = "DoRequest"
    /\ nAdaptor' = nAdaptor + 1
    /\ nDoRequest' = nDoRequest + 1
    /\ \/ /\ ret' = ErrorWrapper("transport", "do_request_failed", StatusInternalServerError)
          /\ failedAt' = "DoRequest"
          /\ pc' = "done"
          /\ UNCHANGED resp
       \/ /\ resp' \in Responses
          /\ pc' = "CheckResp"
          /\ UNCHANGED <<ret, failedAt>>
    /\ UNCHANGED <<apiType, isStream, usage, respErr>>
    /\ UNCHANGED <<nReserve, nRelease, released, nSettle, nDoResponse, nRead>>
    /\ UNCHANGED <<ledgerVars, tapVars, settle>>
    /\ UNCHANGED logged
    /\ UNCHANGED reqVars
    /\ UNCHANGED reqIn
    /\ UNCHANGED otherMux

\* CheckResp with the release of line 112 missing
CheckResp_NoRelease ==
    /\ pc = "CheckResp"
    /\ IF isErrorHappened(resp)
       THEN /\ ret' = RelayErrorHandler(resp)
            /\ failedAt' = "upstream"
            /\ pc' = "done"
            /\ UNCHANGED <<nAdaptor, nDoResponse>>
       ELSE /\ nAdaptor' = nAdaptor + 1
            /\ nDoResponse' = nDoResponse + 1
            /\ pc' = "DoResponse"
            /\ UNCHANGED <<ret, failedAt>>
    /\ UNCHANGED <<balance, nRelease, released>>
    /\ UNCHANGED <<balance0, preConsumedQuota, ratio, bizErr>>
    /\ UNCHANGED <<apiType, isStream, resp, usage, respErr>>
    /\ UNCHANGED <<nReserve, nSettle, nDoRequest, nRead>>
    /\ UNCHANGED <<tapVars, settle>>
    /\ UNCHANGED logged
    /\ UNCHANGED reqVars
    /\ UNCHANGED reqIn
    /\ UNCHANGED otherMux

\* CheckResp with the return of line 113 missing
CheckResp_FallThrough ==
    /\ pc = "CheckResp"
    /\ IF isErrorHappened(resp)
       THEN /\ balance' = Release(balance, preConsumedQuota)
            /\ nRelease' = nRelease + 1
            /\ released' = released + preConsumedQuota
       ELSE UNCHANGED <<balance, nRelease, released>>
    /\ nAdaptor' = nAdaptor + 1
    /\ nDoResponse' = nDoResponse + 1
    /\ pc' = "DoResponse"
    /\ UNCHANGED <<ret, failedAt>>
    /\ UNCHANGED <<balance0, preConsumedQuota, ratio, bizErr>>
    /\ UNCHANGED <<apiType, isStream, resp, usage, respErr>>
    /\ UNCHANGED <<nReserve, nSettle, nDoRequest, nRead>>
    /\ UNCHANGED <<tapVars, settle>>
    /\ UNCHANGED logged
    /\ UNCHANGED reqVars
    /\ UNCHANGED reqIn
    /\ UNCHANGED otherMux

\* lines 111-117: isErrorHappened releases the reservation and returns;
\* otherwise adaptor.DoResponse is called
CheckResp ==
    /\ pc = "CheckResp"
    /\ IF isErrorHappened(resp)
       THEN /\ balance' = Release(balance, preConsumedQuota)
            /\ nRelease' = nRelease + 1
            /\ released' = released + preConsumedQuota
            /\ ret' = RelayErrorHandler(resp)
            /\ failedAt' = "upstream"
            /\ pc' = "done"
            /\ UNCHANGED <<nAdaptor, nDoResponse>>
       ELSE /\ nAdaptor' = nAdaptor + 1
            /\ nDoResponse' = nDoResponse + 1
            /\ pc' = "DoResponse"
            /\ UNCHANGED <<balance, nRelease, released, ret, failedAt>>
    /\ UNCHANGED <<balance0, preConsumedQuota, ratio, bizErr>>
    /\ UNCHANGED <<apiType, isStream, resp, usage, respErr>>
    /\ UNCHANGED <<nReserve, nSettle, nDoRequest, nRead>>
    /\ UNCHANGED <<tapVars, settle>>
    /\ UNCHANGED logged
    /\ UNCHANGED reqVars
    /\ UNCHANGED reqIn
    /\ UNCHANGED otherMux

\* DoResponseReturn whose error path releases but falls through to line 129
DoResponseReturn_SettleOnError ==
    /\ pc = "DoResponse"
    /\ \A w \in Ctx : wpc[w] = "idle"
    /\ \/ /\ \E e \in RespErrors : respErr' = e
          /\ balance' = Release(balance, preConsumedQuota)
          /\ nRelease' = nRelease + 1
          /\ released' = released + preConsumedQuota
          /\ ret' = respErr'
          /\ failedAt' = "DoResponse"
          /\ pc' = "done"
          /\ settle' = "scheduled"
          /\ nSettle' = nSettle + 1
          /\ UNCHANGED usage
       \/ /\ usage' \in 0..MaxUsage
          /\ pc' = "LogResponse"
          /\ UNCHANGED <<respErr, balance, nRelease, released, ret, failedAt, settle, nSettle>>
    /\ UNCHANGED <<balance0, preConsumedQuota, ratio, bizErr>>
    /\ UNCHANGED <<apiType, isStream, resp>>
    /\ UNCHANGED <<nReserve, nAdaptor, nDoRequest, nDoResponse, nRead>>
    /\ UNCHANGED tapVars
    /\ UNCHANGED logged
    /\ UNCHANGED reqVars
    /\ UNCHANGED reqIn
    /\ UNCHANGED otherMux

\* DoResponseReturn with the logging of line 126 placed before the check
\* of respErr
DoResponseReturn_LogOnError ==
    /\ pc = "DoResponse"
    /\ \A w \in Ctx : wpc[w] = "idle"
    /\ \/ /\ \E e \in RespErrors : respErr' = e
          /\ balance' = Release(balance, preConsumedQuota)
          /\ nRelease' = nRelease + 1
          /\ released' = released + preConsumedQuota
          /\ ret' = respErr'
          /\ failedAt' = "DoResponse"
          /\ pc' = "done"
          /\ nRead' = nRead + 1
          /\ logged' = logResponseBody(body, isStream)
          /\ UNCHANGED usage
       \/ /\ usage' \in 0..MaxUsage
          /\ pc' = "LogResponse"
          /\ UNCHANGED <<respErr, balance, nRelease, released, ret, failedAt, nRead, logged>>
    /\ UNCHANGED <<balance0, preConsumedQuota, ratio, bizErr>>
    /\ UNCHANGED <<apiType, isStream, resp>>
    /\ UNCHANGED <<nReserve, nSettle, nAdaptor, nDoRequest, nDoResponse>>
    /\ UNCHANGED <<tapVars, settle>>
    /\ UNCHANGED reqVars
    /\ UNCHANGED reqIn
    /\ UNCHANGED otherMux

\* lines 117-122: adaptor.DoResponse returns, after its writes, a usage
\* record or an error; the error path releases the reservation
DoResponseReturn ==
    /\ pc = "DoResponse"
    /\ \A w \in Ctx : wpc[w] = "idle"
    /\ \/ /\ \E e \in RespErrors : respErr' = e
          /\ balance' = Release(balance, preConsumedQuota)
          /\ nRelease' = nRelease + 1
          /\ released' = released + preConsumedQuota
          /\ ret' = respErr'
          /\ failedAt' = "DoResponse"
          /\ pc' = "done"
          /\ UNCHANGED usage
       \/ /\ usage' \in 0..MaxUsage
          /\ pc' = "LogResponse"
          /\ UNCHANGED <<respErr, balance, nRelease, released, ret, failedAt>>
    /\ UNCHANGED <<balance0, preConsumedQuota, ratio, bizErr>>
    /\ UNCHANGED <<apiType, isStream, resp>>
    /\ UNCHANGED <<nReserve, nSettle, nAdaptor, nDoRequest, nDoResponse, nRead>>
    /\ UNCHANGED <<tapVars, settle>>
    /\ UNCHANGED logged
    /\ UNCHANGED reqVars
    /\ UNCHANGED reqIn
    /\ UNCHANGED otherMux

\* lines 124-126: logResponseBody(ctx, responseBodyBuffer.String(), ...)
LogResponse ==
    /\ pc = "LogResponse"
    /\ nRead' = nRead + 1
    /\ logged' = logResponseBody(body, isStream)
    /\ pc' = "GoPostConsume"
    /\ UNCHANGED <<ret, apiType, isStream, resp, usage, respErr, failedAt>>
    /\ UNCHANGED <<nReserve, nRelease, released, nSettle, nAdaptor, nDoRequest, nDoResponse>>
    /\ UNCHANGED <<ledgerVars, tapVars, settle>>
    /\ UNCHANGED reqVars
    /\ UNCHANGED reqIn
    /\ UNCHANGED otherMux

\* line 129: go postConsumeQuota(...)
GoPostConsume ==
    /\ pc = "GoPostConsume"
    /\ settle' = "scheduled"
    /\ nSettle' = nSettle + 1
    /\ pc' = "Return"
    /\ UNCHANGED <<ret, apiType, isStream, resp, usage, respErr, failedAt>>
    /\ UNCHANGED <<nReserve, nRelease, released, nAdaptor, nDoRequest, nDoResponse, nRead>>
    /\ UNCHANGED <<ledgerVars, tapVars>>
    /\ UNCHANGED logged
    /\ UNCHANGED reqVars
    /\ UNCHANGED reqIn
    /\ UNCHANGED otherMux

\* ReturnNil that waits for postConsumeQuota and surfaces its failure
ReturnNil_Await ==
    /\ pc = "Return"
    /\ settle \in {"done", "failed"}
    /\ ret' = IF settle = "done"
              THEN Nil
              ELSE ErrorWrapper("settle", "consume_quota_failed", StatusInternalServerError)
    /\ pc' = "done"
    /\ UNCHANGED <<apiType, isStream, resp, usage, respErr, failedAt>>
    /\ UNCHANGED <<ledgerVars, countVars, tapVars, settle>>
    /\ UNCHANGED logged
    /\ UNCHANGED reqVars
    /\ UNCHANGED reqIn
    /\ UNCHANGED otherMux

\* line 130: return nil
ReturnNil ==
    /\ pc = "Return"
    /\ ret' = Nil
    /\ pc' = "done"
    /\ UNCHANGED <<apiType, isStream, resp, usage, respErr, failedAt>>
    /\ UNCHANGED <<ledgerVars, countVars, tapVars, settle>>
    /\ UNCHANGED logged
    /\ UNCHANGED reqVars
    /\ UNCHANGED reqIn
    /\ UNCHANGED otherMux

\* ------------------------------------- the goroutine of line 129
\* the scheduler starts postConsumeQuota
SettleStart ==
    /\ settle = "scheduled"
    /\ settle' = "running"
    /\ UNCHANGED <<ledgerVars, callVars, countVars, tapVars>>
    /\ UNCHANGED logged
    /\ UNCHANGED reqVars
    /\ UNCHANGED reqIn
    /\ UNCHANGED otherMux

\* postConsumeQuota reconciles the reservation with the usage, or fails
\* and only logs
SettleFinish ==
    /\ settle = "running"
    /\ \/ /\ settle' = "done"
          /\ balance' = Settle(balance, preConsumedQuota, usage * ratio)
       \/ /\ settle' = "failed"
          /\ UNCHANGED balance
    /\ UNCHANGED <<balance0, preConsumedQuota, ratio, bizErr>>
    /\ UNCHANGED <<callVars, countVars, tapVars>>
    /\ UNCHANGED logged
    /\ UNCHANGED reqVars
    /\ UNCHANGED reqIn
    /\ UNCHANGED otherMux

\* ------------------------------------------- responseBodyLogWriter
Idle(w) == wpc[w] = "idle"

\* entry of a call with argument b: take the lock path only when isStream
Enter(w, b) ==
    /\ pc = "DoResponse"
    /\ Idle(w)
    /\ nWrites < MaxWrites
    /\ nWrites' = nWrites + 1
    /\ wchunk' = [wchunk EXCEPT ![w] = b]
    /\ wpc' = [wpc EXCEPT ![w] = IF isStream THEN "lock" ELSE "acc"]
    /\ passed' = passed \o b
    /\ overlapped' = (overlapped \/ \E o \in Ctx : o # w /\ ~Idle(o))
    /\ UNCHANGED <<body, sinkIn, delivered, streamMux, wsnap, wres, sinkRes>>
    /\ UNCHANGED <<ledgerVars, callVars, countVars, settle>>
    /\ UNCHANGED logged
    /\ UNCHANGED reqVars
    /\ UNCHANGED reqIn
    /\ UNCHANGED otherMux

\* lines 34-35: Write(b []byte)
WriteCall(w) == \E b \in Chunks : Enter(w, b)

\* lines 43-44: WriteString(s string); s is its bytes
WriteStringCall(w) == \E s \in Chunks : Enter(w, s)

\* Lock that does not wait for the holder
Lock_NoExclusion(w) ==
    /\ wpc[w] = "lock"
    /\ streamMux' = w
    /\ wpc' = [wpc EXCEPT ![w] = "acc"]
    /\ UNCHANGED <<body, sinkIn, delivered, wchunk, wsnap, wres, sinkRes, passed, overlapped, nWrites>>
    /\ UNCHANGED <<ledgerVars, callVars, countVars, settle>>
    /\ UNCHANGED logged
    /\ UNCHANGED reqVars
    /\ UNCHANGED reqIn
    /\ UNCHANGED otherMux

\* Lock on a mutex shared by the taps of all relay calls
Lock_Global(w) ==
    /\ wpc[w] = "lock"
    /\ streamMux = 0
    /\ otherMux = 0
    /\ streamMux' = w
    /\ wpc' = [wpc EXCEPT ![w] = "acc"]
    /\ UNCHANGED <<body, sinkIn, delivered, wchunk, wsnap, wres, sinkRes, passed, overlapped, nWrites>>
    /\ UNCHANGED <<ledgerVars, callVars, countVars, settle>>
    /\ UNCHANGED logged
    /\ UNCHANGED reqVars
    /\ UNCHANGED reqIn
    /\ UNCHANGED otherMux

\* lines 36-37, 45-46: w.streamMux.Lock()
Lock(w) ==
    /\ wpc[w] = "lock"
    /\ streamMux = 0
    /\ streamMux' = w
    /\ wpc' = [wpc EXCEPT ![w] = "acc"]
    /\ UNCHANGED <<body, sinkIn, delivered, wchunk, wsnap, wres, sinkRes, passed, overlapped, nWrites>>
    /\ UNCHANGED <<ledgerVars, callVars, countVars, settle>>
    /\ UNCHANGED logged
    /\ UNCHANGED reqVars
    /\ UNCHANGED reqIn
    /\ UNCHANGED otherMux

\* lines 39, 48: body.Write reads the buffer it is about to extend
AccumulateRead(w) ==
    /\ wpc[w] = "acc"
    /\ wsnap' = [wsnap EXCEPT ![w] = body]
    /\ wpc' = [wpc EXCEPT ![w] = "app"]
    /\ UNCHANGED <<body, sinkIn, delivered, streamMux, wchunk, wres, sinkRes, passed, overlapped, nWrites>>
    /\ UNCHANGED <<ledgerVars, callVars, countVars, settle>>
    /\ UNCHANGED logged
    /\ UNCHANGED reqVars
    /\ UNCHANGED reqIn
    /\ UNCHANGED otherMux

\* an append that puts the chunk in front of the buffer
AccumulateAppend_Prepend(w) ==
    /\ wpc[w] = "app"
    /\ body' = wchunk[w] \o body
    /\ wsnap' = [wsnap EXCEPT ![w] = <<>>]
    /\ wpc' = [wpc EXCEPT ![w] = "fwd"]
    /\ UNCHANGED <<sinkIn, delivered, streamMux, wchunk, wres, sinkRes, passed, overlapped, nWrites>>
    /\ UNCHANGED <<ledgerVars, callVars, countVars, settle>>
    /\ UNCHANGED logged
    /\ UNCHANGED reqVars
    /\ UNCHANGED reqIn
    /\ UNCHANGED otherMux

\* lines 39, 48: body.Write appends; when another context changed the
\* buffer since the read (a data race, possible only without the lock) the
\* append lands on either contents
AccumulateAppend(w) ==
    /\ wpc[w] = "app"
    /\ body' \in {wsnap[w] \o wchunk[w], body \o wchunk[w]}
    /\ wsnap' = [wsnap EXCEPT ![w] = <<>>]
    /\ wpc' = [wpc EXCEPT ![w] = "fwd"]
    /\ UNCHANGED <<sinkIn, delivered, streamMux, wchunk, wres, sinkRes, passed, overlapped, nWrites>>
    /\ UNCHANGED <<ledgerVars, callVars, countVars, settle>>
    /\ UNCHANGED logged
    /\ UNCHANGED reqVars
    /\ UNCHANGED reqIn
    /\ UNCHANGED otherMux

\* Forward that returns the accumulator's result (len(b), nil)
Forward_AccumulatorResult(w) ==
    /\ wpc[w] = "fwd"
    /\ sinkIn' = sinkIn \o wchunk[w]
    /\ \E n \in 0..Len(wchunk[w]), err \in BOOLEAN :
        /\ n < Len(wchunk[w]) => err
        /\ delivered' = delivered \o SubSeq(wchunk[w], 1, n)
        /\ sinkRes' = [sinkRes EXCEPT ![w] = <<n, err>>]
        /\ wres' = [wres EXCEPT ![w] = <<Len(wchunk[w]), FALSE>>]
    /\ wpc' = [wpc EXCEPT ![w] = "ret"]
    /\ UNCHANGED <<body, streamMux, wchunk, wsnap, passed, overlapped, nWrites>>
    /\ UNCHANGED <<ledgerVars, callVars, countVars, settle>>
    /\ UNCHANGED logged
    /\ UNCHANGED reqVars
    /\ UNCHANGED reqIn
    /\ UNCHANGED otherMux

\* Forward that hands the sink the whole buffer instead of the chunk
Forward_Buffer(w) ==
    /\ wpc[w] = "fwd"
    /\ sinkIn' = sinkIn \o body
    /\ \E n \in 0..Len(wchunk[w]), err \in BOOLEAN :
        /\ n < Len(wchunk[w]) => err
        /\ delivered' = delivered \o SubSeq(wchunk[w], 1, n)
        /\ sinkRes' = [sinkRes EXCEPT ![w] = <<n, err>>]
        /\ wres' = [wres EXCEPT ![w] = sinkRes'[w]]
    /\ wpc' = [wpc EXCEPT ![w] = "ret"]
    /\ UNCHANGED <<body, streamMux, wchunk, wsnap, passed, overlapped, nWrites>>
    /\ UNCHANGED <<ledgerVars, callVars, countVars, settle>>
    /\ UNCHANGED logged
    /\ UNCHANGED reqVars
    /\ UNCHANGED reqIn
    /\ UNCHANGED otherMux

\* lines 40, 49: w.ResponseWriter.Write(b); the sink accepts n bytes of b
\* and reports an error whenever n < len(b)
Forward(w) ==
    /\ wpc[w] = "fwd"
    /\ sinkIn' = sinkIn \o wchunk[w]
    /\ \E n \in 0..Len(wchunk[w]), err \in BOOLEAN :
        /\ n < Len(wchunk[w]) => err
        /\ delivered' = delivered \o SubSeq(wchunk[w], 1, n)
        /\ sinkRes' = [sinkRes EXCEPT ![w] = <<n, err>>]
        /\ wres' = [wres EXCEPT ![w] = sinkRes'[w]]
    /\ wpc' = [wpc EXCEPT ![w] = "ret"]
    /\ UNCHANGED <<body, streamMux, wchunk, wsnap, passed, overlapped, nWrites>>
    /\ UNCHANGED <<ledgerVars, callVars, countVars, settle>>
    /\ UNCHANGED logged
    /\ UNCHANGED reqVars
    /\ UNCHANGED reqIn
    /\ UNCHANGED otherMux

\* a return that leaves streamMux locked (no deferred Unlock)
WriteReturn_KeepLock(w) ==
    /\ wpc[w] = "ret"
    /\ wpc' = [wpc EXCEPT ![w] = "idle"]
    /\ wchunk' = [wchunk EXCEPT ![w] = <<>>]
    /\ wres' = [wres EXCEPT ![w] = NoRes]
    /\ sinkRes' = [sinkRes EXCEPT ![w] = NoRes]
    /\ UNCHANGED <<body, sinkIn, delivered, streamMux, wsnap, passed, overlapped, nWrites>>
    /\ UNCHANGED <<ledgerVars, callVars, countVars, settle>>
    /\ UNCHANGED logged
    /\ UNCHANGED reqVars
    /\ UNCHANGED reqIn
    /\ UNCHANGED otherMux

\* lines 37/41, 46/50: the deferred Unlock runs and the call returns
WriteReturn(w) ==
    /\ wpc[w] = "ret"
    /\ streamMux' = IF isStream THEN 0 ELSE streamMux
    /\ wpc' = [wpc EXCEPT ![w] = "idle"]
    /\ wchunk' = [wchunk EXCEPT ![w] = <<>>]
    /\ wres' = [wres EXCEPT ![w] = NoRes]
    /\ sinkRes' = [sinkRes EXCEPT ![w] = NoRes]
    /\ UNCHANGED <<body, sinkIn, delivered, wsnap, passed, overlapped, nWrites>>
    /\ UNCHANGED <<ledgerVars, callVars, countVars, settle>>
    /\ UNCHANGED logged
    /\ UNCHANGED reqVars
    /\ UNCHANGED reqIn
    /\ UNCHANGED otherMux

Tap(w) ==
    \/ WriteCall(w)
    \/ WriteStringCall(w)
    \/ Lock(w)
    \/ AccumulateRead(w)
    \/ AccumulateAppend(w)
    \/ Forward(w)
    \/ WriteReturn(w)

Relay ==
    \/ Validate
    \/ PreConsume
    \/ GetAdaptor
    \/ GetRequestBody
    \/ DoRequest
    \/ CheckResp
    \/ DoResponseReturn
    \/ LogResponse
    \/ GoPostConsume
    \/ ReturnNil

Next ==
    \/ Relay
    \/ \E w \in RequestTask : Tap(w)
    \/ SettleStart
    \/ SettleFinish

Spec == Init /\ [][Next]_vars

\* ------------------------------------- a second relay call's tap
\* lines 64-70: every call of RelayTextHelper builds its own
\* responseBodyLogWriter, so another call's writes lock another mutex
OtherLock ==
    /\ otherMux = 0
    /\ otherMux' = 1
    /\ UNCHANGED <<ledgerVars, callVars, countVars, tapVars, settle, logged, reqIn, reqVars>>

OtherUnlock ==
    /\ otherMux = 1
    /\ otherMux' = 0
    /\ UNCHANGED <<ledgerVars, callVars, countVars, tapVars, settle, logged, reqIn, reqVars>>

NextCalls ==
    \/ Next
    \/ OtherLock
    \/ OtherUnlock

SpecCalls == Init /\ [][NextCalls]_vars

\* ------------------------------------------- the call under fairness
\* a call that reserves out of a balance of nothing or of Margin
InitLive ==
    /\ Init
    /\ balance0 \in {0, Margin}

\* the steps of a write that need nothing but the scheduler: the mutex is
\* granted when free, body.Write and the sink's Write return
WriteProgress(w) ==
    \/ Lock(w)
    \/ AccumulateRead(w)
    \/ AccumulateAppend(w)
    \/ Forward(w)
    \/ WriteReturn(w)

\* the steps of RelayTextHelper around its collaborators' calls
RelayProgress ==
    \/ Validate
    \/ PreConsume
    \/ GetAdaptor
    \/ GetRequestBody
    \/ DoRequest
    \/ CheckResp
    \/ DoResponseReturn
    \/ GoPostConsume
    \/ ReturnNil

\* the step of LogResponse, told by what it does to pc
LogResponseStep ==
    /\ pc = "LogResponse"
    /\ pc' = "GoPostConsume"

\* every collaborator call returns, a started write runs to its end, and
\* the goroutine of line 129 is scheduled
Fairness ==
    /\ WF_vars(RelayProgress)
    /\ WF_pc(LogResponseStep)
    /\ \A w \in RequestTask : WF_vars(WriteProgress(w))
    /\ WF_vars(SettleStart)
    /\ WF_vars(SettleFinish)

SpecLive == InitLive /\ [][Next]_vars /\ Fairness

\* the request state of the call of OneRequest once its body was sent
SentRequest ==
    /\ textRequest = [model |-> "gpt-x-2024", form |-> "openai"]
    /\ originModelName = "gpt-x"
    /\ actualModelName = "gpt-x-2024"
    /\ isModelMapped = TRUE
    /\ nModelAssign = 1
    /\ requestBody = [model |-> "gpt-x-2024", extra |-> FALSE, form |-> "openai"]
    /\ nConvert = 0

\* ------------------------------------------------ the tap on its own
\* a call that reserved Margin out of a balance of Margin, got a good
\* response and entered adaptor.DoResponse, which now writes from every
\* execution context
InitTap ==
    /\ pc = "DoResponse"
    /\ ret = Pending
    /\ apiType = "OpenAI"
    /\ isStream \in BOOLEAN
    /\ balance0 = Margin
    /\ balance = 0
    /\ preConsumedQuota = Margin
    /\ ratio = 1
    /\ bizErr = Nil
    /\ resp = [status |-> StatusOK, envelope |-> FALSE]
    /\ usage = 0
    /\ respErr = Nil
    /\ failedAt = "none"
    /\ settle = "none"
    /\ nReserve = 1
    /\ nRelease = 0
    /\ released = 0
    /\ nSettle = 0
    /\ nAdaptor = 3
    /\ nDoRequest = 1
    /\ nDoResponse = 1
    /\ nRead = 0
    /\ TapInit
    /\ OneRequest
    /\ SentRequest

NextTap == \E w \in Ctx : Tap(w)

SpecTap == InitTap /\ [][NextTap]_vars

\* ------------------------------------------ the logging path on its own
\* the call of InitTap after adaptor.DoResponse wrote text in one call and
\* returned a usage record
InitExtract ==
    /\ pc = "LogResponse"
    /\ ret = Pending
    /\ apiType = "OpenAI"
    /\ isStream \in BOOLEAN
    /\ balance0 = Margin
    /\ balance = 0
    /\ preConsumedQuota = Margin
    /\ ratio = 1
    /\ bizErr = Nil
    /\ resp = [status |-> StatusOK, envelope |-> FALSE]
    /\ usage = 1
    /\ respErr = Nil
    /\ failedAt = "none"
    /\ settle = "none"
    /\ nReserve = 1
    /\ nRelease = 0
    /\ released = 0
    /\ nSettle = 0
    /\ nAdaptor = 3
    /\ nDoRequest = 1
    /\ nDoResponse = 1
    /\ nRead = 0
    /\ body \in TextsUpTo(MaxText) \cup {ExampleStream}
    /\ sinkIn = body
    /\ delivered = body
    /\ passed = body
    /\ streamMux = 0
    /\ wpc = [w \in Ctx |-> "idle"]
    /\ wchunk = [w \in Ctx |-> <<>>]
    /\ wsnap = [w \in Ctx |-> <<>>]
    /\ wres = [w \in Ctx |-> NoRes]
    /\ sinkRes = [w \in Ctx |-> NoRes]
    /\ overlapped = FALSE
    /\ nWrites = 1
    /\ logged = ""
    /\ otherMux = 0
    /\ OneRequest
    /\ SentRequest

NextExtract == LogResponse

SpecExtract == InitExtract /\ [][NextExtract]_vars

\* ------------------------------------- the call for every kind of request
\* every inbound body, mapping table and channel type; adaptor.DoResponse
\* writes nothing
InitRequest ==
    /\ pc = "Validate"
    /\ ret = Pending
    /\ apiType \in {"OpenAI", "Other", "Unknown"}
    /\ isStream = FALSE
    /\ balance0 \in 0..MaxBalance
    /\ balance = balance0
    /\ preConsumedQuota = 0
    /\ ratio = 0
    /\ bizErr = Nil
    /\ resp = NoResp
    /\ usage = 0
    /\ respErr = Nil
    /\ failedAt = "none"
    /\ settle = "none"
    /\ CountInit
    /\ TapInit
    /\ rawBody \in RawBodies
    /\ modelMapping \in ModelMappings
    /\ channelType \in {"OpenAI", "Baichuan"}
    /\ RequestInit

NextRequest ==
    \/ Relay
    \/ SettleStart
    \/ SettleFinish

SpecRequest == InitRequest /\ [][NextRequest]_vars
\* ------------------------------------------------------------- claims
AllIdle == \A w \in Ctx : Idle(w)
InCall(w) == wpc[w] \in {"acc", "app", "fwd", "ret"}
IsPrefix(a, b) == Len(a) <= Len(b) /\ SubSeq(b, 1, Len(a)) = a

\* C1: a call whose reservation succeeded has, when it returns, released
\* or settled the reservation exactly once: never both, never neither.
C1_ReleasedOrSettledOnce ==
    (pc = "done" /\ nReserve = 1) => nRelease + nSettle = 1

\* C2: when DoRequest fails after a reservation, the reservation is
\* released in full, the balance is back at its starting value, and the
\* call returns the DoRequest error without DoResponse or settlement.
C2_DoRequestFailureRollsBack ==
    (pc = "done" /\ failedAt = "DoRequest") =>
        /\ nRelease = 1
        /\ released = preConsumedQuota
        /\ balance = balance0
        /\ ret.code = "do_request_failed"
        /\ nDoResponse = 0
        /\ nSettle = 0

\* C3: when DoRequest succeeded and then the response is an upstream
\* application error or DoResponse fails, the reservation is released
\* exactly once with the full amount, settlement is never scheduled, and
\* the call returns RelayErrorHandler(resp) or respErr.
C3_AdaptorErrorReleases ==
    (pc = "done" /\ failedAt \in {"upstream", "DoResponse"}) =>
        /\ nDoRequest = 1
        /\ nRelease = 1
        /\ released = preConsumedQuota
        /\ nSettle = 0
        /\ settle = "none"
        /\ failedAt = "upstream" => (isErrorHappened(resp) /\ ret = RelayErrorHandler(resp))
        /\ failedAt = "DoResponse" => (respErr \in RespErrors /\ ret = respErr)

C3_Witness ==
    /\ pc = "done"
    /\ failedAt = "DoResponse"
    /\ nRelease = 1
    /\ preConsumedQuota > Margin
    /\ Len(sinkIn) > 0

\* C4: settlement is started only after DoResponse returned a usage record
\* without error, and never in a call that returns a non-nil error.
C4_SettleOnlyAfterSuccess ==
    /\ (nSettle > 0 \/ settle # "none") =>
        /\ nSettle = 1
        /\ nDoResponse = 1
        /\ respErr = Nil
        /\ failedAt = "none"
        /\ pc \in {"Return", "done"}
    /\ (pc = "done" /\ ret # Nil) => (nSettle = 0 /\ settle = "none")

C4_Witness ==
    /\ pc = "done"
    /\ ret = Nil
    /\ nSettle = 1
    /\ settle = "done"
    /\ usage > 0

\* C5: a failed validation ends the call with the invalid-request error
\* (status 400) and without any quota operation, adaptor operation or
\* write to the client sink.
C5_InvalidRequestTouchesNothing ==
    failedAt = "validate" =>
        /\ pc = "done"
        /\ ret = ErrorWrapper("validate", "invalid_text_request", StatusBadRequest)
        /\ nReserve = 0 /\ nRelease = 0 /\ nSettle = 0 /\ settle = "none"
        /\ balance = balance0
        /\ nAdaptor = 0
        /\ nWrites = 0 /\ sinkIn = <<>> /\ delivered = <<>>

C5_Witness ==
    /\ pc = "done"
    /\ failedAt = "validate"
    /\ ret.status = StatusBadRequest
    /\ balance0 > 0

\* C6: DoRequest is called only after the reservation succeeded and the
\* outbound body was built; a failed reservation returns the ledger's
\* error unchanged with no adaptor operation, and a failed body build makes
\* no outbound call.
C6_DoRequestAfterReserveAndBody ==
    /\ nDoRequest > 0 => (nReserve = 1 /\ failedAt \notin {"validate", "reserve", "adaptor", "body"})
    /\ failedAt = "reserve" =>
        (pc = "done" /\ bizErr # Nil /\ ret = bizErr /\ nAdaptor = 0 /\ nReserve = 0)
    /\ failedAt = "body" => (pc = "done" /\ nDoRequest = 0)

C6_Witness ==
    /\ pc = "done"
    /\ failedAt = "body"
    /\ apiType = "Other"
    /\ nReserve = 1
    /\ nAdaptor = 2

\* C7: an error returned before DoResponse was invoked is a structured
\* error, and no byte was written to the client sink through the tap.
C7_EarlyErrorsWriteNothing ==
    /\ nDoResponse = 0 => (nWrites = 0 /\ body = <<>> /\ sinkIn = <<>> /\ delivered = <<>>)
    /\ (pc = "done" /\ ret # Nil /\ nDoResponse = 0) =>
        /\ ret.code \notin {"", "pending", "nil"}
        /\ ret.status > 0
        /\ ret.msg # ""
        /\ failedAt \in {"validate", "reserve", "adaptor", "body", "DoRequest", "upstream"}

C7_Witness ==
    /\ pc = "done"
    /\ failedAt = "upstream"
    /\ ret.status = StatusInternalServerError
    /\ sinkIn = <<>>

\* C8: after a successful DoResponse the return of nil does not wait for
\* postConsumeQuota: it is enabled whatever the goroutine's state, and a
\* settlement failure does not change the returned value.
C8_ReturnDetachedFromSettlement ==
    /\ pc = "Return" => (settle \in {"scheduled", "running", "done", "failed"} /\ ENABLED ReturnNil)
    /\ (pc = "done" /\ nSettle = 1) => ret = Nil

C8_Witness ==
    /\ pc = "Return"
    /\ settle = "failed"
    /\ ENABLED ReturnNil
\* C9: for calls of Write/WriteString made one after another, the bytes
\* handed to the wrapped sink and the bytes accumulated in the buffer both
\* equal, in order, the bytes passed to the tap, also when the sink
\* reported an error or a short write.
C9_TapTransparent ==
    ~overlapped =>
        /\ IsPrefix(sinkIn, passed)
        /\ IsPrefix(body, passed)
        /\ IsPrefix(sinkIn, body)
        /\ AllIdle => (sinkIn = passed /\ body = passed)

C9_Witness ==
    /\ ~overlapped
    /\ AllIdle
    /\ nWrites >= 2
    /\ passed = <<2, 3, 1>>
    /\ sinkIn = passed
    /\ body = passed
    /\ delivered = <<2>>

\* C10: in streaming mode the accumulate-then-forward pair of a call runs
\* under streamMux: at most one context is between its accumulate and its
\* return, it holds the lock, and the accumulator equals the bytes handed to
\* the sink followed by the one chunk still to be forwarded.
C10_StreamPairAtomic ==
    isStream =>
        /\ Cardinality({w \in Ctx : InCall(w)}) <= 1
        /\ \A w \in Ctx : InCall(w) <=> streamMux = w
        /\ \A w \in Ctx : wpc[w] = "fwd" => body = sinkIn \o wchunk[w]
        /\ (\A w \in Ctx : wpc[w] # "fwd") => body = sinkIn

C10_Witness ==
    /\ isStream
    /\ overlapped
    /\ \E w \in Ctx, o \in Ctx :
        /\ wpc[w] = "fwd"
        /\ wpc[o] = "lock"
        /\ wchunk[w] # wchunk[o]
    /\ Len(sinkIn) > 0
\* C11: the result (byte count and error) a call of Write/WriteString is
\* about to return is the result the wrapped sink gave for that chunk, in
\* streaming and non-streaming mode, whatever the accumulator did.
C11_ResultFromSink ==
    \A w \in Ctx :
        /\ wpc[w] = "ret" =>
            /\ sinkRes[w] # NoRes
            /\ wres[w] = sinkRes[w]
            /\ wres[w][1] \in 0..Len(wchunk[w])
        /\ wpc[w] # "ret" => wres[w] = NoRes

C11_Witness ==
    \E w \in Ctx :
        /\ ~isStream
        /\ wpc[w] = "ret"
        /\ wchunk[w] = <<2, 3>>
        /\ wres[w] = <<1, TRUE>>
        /\ Len(body) > Len(delivered)
\* what one choice of a frame contributes: its delta content string, or
\* nothing when the choice, its delta or its content is missing or malformed
ChoiceText(c) ==
    IF c.t = "object" /\ Get(c, "delta").t = "object" /\ Get(Get(c, "delta"), "content").t = "string"
    THEN Get(Get(c, "delta"), "content").s
    ELSE ""

RECURSIVE Concat(_)
Concat(strs) == IF strs = <<>> THEN "" ELSE Head(strs) \o Concat(Tail(strs))

\* what one frame contributes: the contents of its choices in order, or
\* nothing for an empty frame, [DONE], a frame that is not a JSON object
\* and a frame without a choices array
FrameText(frame) ==
    LET doc == Unmarshal(frame)
    IN  IF doc.err \/ Get(doc.v, "choices").t # "array" THEN ""
        ELSE LET choices == Get(doc.v, "choices").a
             IN  Concat([i \in 1..Len(choices) |-> ChoiceText(choices[i])])

StreamText(text) ==
    LET frames == Split(text)
    IN  Concat([i \in 1..Len(frames) |-> FrameText(frames[i])])

\* C12: in streaming mode the logged content is the concatenation, in
\* frame order and in choice order, of every choice's delta content of
\* every frame split off the captured text; empty frames, [DONE],
\* unparsable frames and frames or choices without choices/delta/content
\* add nothing and do not stop the extraction of later frames.
C12_StreamExtraction ==
    (nRead = 1 /\ isStream /\ body # <<>>) => logged = StreamText(body)

C12_Witness ==
    /\ nRead = 1
    /\ isStream
    /\ body = <<5, 1, 6>>
    /\ logged = "lo"

\* the structural expectation a captured non-streaming body fails first
FailureKind(text) ==
    IF text = <<>> THEN "empty body"
    ELSE IF Unmarshal(text).err THEN "unparsable JSON"
    ELSE LET choices == Get(Unmarshal(text).v, "choices")
    IN  IF choices.t # "array" \/ choices.a = <<>> THEN "no choices"
        ELSE IF choices.a[1].t # "object" THEN "malformed choice"
        ELSE IF Get(choices.a[1], "message").t # "object" THEN "malformed message"
        ELSE IF Get(Get(choices.a[1], "message"), "content").t # "string" THEN "missing content"
        ELSE "none"

Placeholder ==
    [ k \in {"empty body", "unparsable JSON", "no choices", "malformed choice",
             "malformed message", "missing content"} |->
        CASE k = "empty body" -> "Empty response body"
          [] k = "unparsable JSON" -> "Failed to parse response JSON"
          [] k = "no choices" -> "No content found in response"
          [] k = "malformed choice" -> "Invalid choice format in response"
          [] k = "malformed message" -> "Invalid message format in response"
          [] k = "missing content" -> "No content field found in message" ]

\* C13: in non-streaming mode the logged content is the first choice's
\* message content, or else the placeholder of the one structural
\* expectation that failed, and the six placeholders are pairwise distinct.
C13_NonStreamExtraction ==
    (nRead = 1 /\ ~isStream) =>
        /\ FailureKind(body) = "none" =>
            logged = Get(Get(Get(Unmarshal(body).v, "choices").a[1], "message"), "content").s
        /\ FailureKind(body) # "none" => logged = Placeholder[FailureKind(body)]
        /\ \A j, k \in DOMAIN Placeholder : j # k => Placeholder[j] # Placeholder[k]

C13_Witness ==
    /\ nRead = 1
    /\ ~isStream
    /\ body = <<3, 10, 3>>
    /\ logged = "Invalid message format in response"
\* C14: for the OpenAI API type ConvertRequest is never called and the
\* body sent upstream is the inbound bytes, unless the model was renamed
\* or the channel is Baichuan, when it is the re-serialized canonical
\* request; for every other API type it is the serialization of
\* ConvertRequest's result.
C14_PassthroughRule ==
    /\ apiType = "OpenAI" => nConvert = 0
    /\ nDoRequest > 0 => requestBody # NoBody
    /\ requestBody # NoBody =>
        /\ requestBody.model = actualModelName
        /\ IF apiType = "OpenAI"
           THEN IF actualModelName # originModelName \/ channelType = "Baichuan"
                THEN requestBody = [model |-> textRequest.model, extra |-> FALSE, form |-> "openai"]
                ELSE requestBody = rawBody
           ELSE /\ nConvert = 1
                /\ requestBody = [model |-> textRequest.model, extra |-> FALSE, form |-> "backend"]

C14_Witness ==
    /\ apiType = "OpenAI"
    /\ channelType = "Baichuan"
    /\ actualModelName = originModelName
    /\ rawBody.extra
    /\ nDoRequest = 1
    /\ requestBody # rawBody

\* the name the mapping table gives for the requested model
EffectiveName ==
    IF rawBody.model \in DOMAIN modelMapping THEN modelMapping[rawBody.model] ELSE rawBody.model

C15_Mapped ==
    /\ nModelAssign <= 1
    /\ (nReserve > 0 \/ failedAt = "reserve" \/ nAdaptor > 0) => nModelAssign = 1
    /\ nModelAssign = 1 =>
        /\ originModelName = rawBody.model
        /\ textRequest.model = EffectiveName
        /\ actualModelName = EffectiveName
        /\ rawBody.model \notin DOMAIN modelMapping =>
            (textRequest.model = rawBody.model /\ ~isModelMapped)

\* C15: after normalization meta keeps the requested name, the canonical
\* model and ActualModelName are the mapper's effective name, an unmapped
\* name stays unchanged with wasRemapped false, and the canonical model is
\* assigned once, before the reservation, and never again afterwards.
C15_ModelMapping ==
    /\ []C15_Mapped
    /\ [][ /\ nModelAssign' # nModelAssign => (pc = "PreConsume" /\ nReserve = 0)
           /\ nModelAssign = 1 => textRequest' = textRequest ]_vars

C15_Witness ==
    /\ pc = "done"
    /\ ret = Nil
    /\ rawBody.model = "gpt-x"
    /\ modelMapping = [n \in {"gpt-x"} |-> "gpt-x-2024"]
    /\ originModelName = "gpt-x"
    /\ textRequest.model = "gpt-x-2024"
    /\ isModelMapped
\* C16 as stated: without the lock, whatever the contexts that write, the
\* accumulator holds the chunks in the order the sink received them.
C16_NonStreamOrderAlways ==
    (~isStream /\ AllIdle) => body = sinkIn

\* C16 as amended: without the lock, as long as no call on the tap began
\* while another was in progress, the accumulator holds the chunks in the
\* order the sink received them, the chunk being forwarded coming last, and
\* streamMux is never taken.
C16_NonStreamSequentialOrder ==
    (~isStream /\ ~overlapped) =>
        /\ streamMux = 0
        /\ \A w \in Ctx : wpc[w] # "lock"
        /\ \A w \in Ctx : wpc[w] \in {"acc", "app"} => body = sinkIn
        /\ \A w \in Ctx : wpc[w] = "fwd" => body = sinkIn \o wchunk[w]
        /\ \A w \in Ctx : wpc[w] = "ret" => body = sinkIn
        /\ AllIdle => body = sinkIn

C16_Witness ==
    /\ ~isStream
    /\ ~overlapped
    /\ nWrites = 3
    /\ wpc[2] = "fwd"
    /\ wchunk[2] = <<1>>
    /\ sinkIn = <<2, 3, 1>>
    /\ body = <<2, 3, 1, 1>>
\* C17: streamMux is held only by a context inside Write/WriteString, past
\* its Lock and before its return (so it is free whenever no write is in
\* progress, also after a write whose sink reported an error), only in
\* streaming mode; it is free from the moment DoResponse returned: when the
\* settlement is scheduled, while it runs and when RelayTextHelper
\* returns; and a context waiting for this call's streamMux can take it
\* as soon as it is free, whoever holds the lock of another call's tap.
C17_LockScopedToWrite ==
    /\ streamMux \in {0} \cup Ctx
    /\ \A w \in Ctx : streamMux = w =>
        /\ isStream
        /\ wpc[w] \in {"acc", "app", "fwd", "ret"}
    /\ AllIdle => streamMux = 0
    /\ pc \in {"LogResponse", "GoPostConsume", "Return", "done"} => streamMux = 0
    /\ settle # "none" => streamMux = 0
    /\ \A w \in Ctx : (wpc[w] = "lock" /\ streamMux = 0) => ENABLED Lock(w)

\* a streaming call that wrote three chunks, one refused by the sink,
\* returns with the lock free while another call's tap is locked
C17_Witness ==
    /\ isStream
    /\ pc = "done"
    /\ ret = Nil
    /\ settle = "scheduled"
    /\ nWrites = 3
    /\ Len(delivered) < Len(sinkIn)
    /\ streamMux = 0
    /\ otherMux = 1
\* C18: the events of a call come in the order reservation, DoRequest,
\* tap writes, one read of the captured buffer, start of the settlement:
\* a write happens only after DoRequest and the reservation, the buffer is
\* read at most once, only on a call nothing has failed in, when every
\* write has returned, and what is logged is the extraction of the whole
\* response; the settlement starts only after that read; and from the
\* read on nothing is written through the tap.
C18_State ==
    /\ nRead <= 1
    /\ nDoRequest > 0 => nReserve = 1
    /\ nWrites > 0 => (nDoRequest = 1 /\ nReserve = 1 /\ nDoResponse = 1)
    /\ nRead = 1 =>
        /\ failedAt = "none"
        /\ respErr = Nil
        /\ nDoResponse = 1
        /\ AllIdle
        /\ pc \in {"GoPostConsume", "Return", "done"}
        /\ body = sinkIn
        /\ sinkIn = passed
        /\ logged = logResponseBody(body, isStream)
    /\ (nSettle > 0 \/ settle # "none") => nRead = 1
    /\ failedAt # "none" => (nRead = 0 /\ logged = "")

C18_EventOrder ==
    /\ []C18_State
    /\ [][ /\ nRead' # nRead => (nSettle = 0 /\ settle = "none" /\ nRead' = nRead + 1)
           /\ nSettle' # nSettle => nRead = 1
           /\ <<nWrites, body, sinkIn, passed, wpc>>' # <<nWrites, body, sinkIn, passed, wpc>>
                => (nRead = 0 /\ nSettle = 0) ]_vars

C18_Witness ==
    /\ isStream
    /\ nWrites = 2
    /\ nRead = 1
    /\ body = <<2, 3, 1>>
    /\ logged = "Hel"
    /\ settle = "running"
    /\ pc = "done"
    /\ ret = Nil

\* C19: billing.ReturnPreConsumedQuota is invoked at most once and
\* postConsumeQuota is started at most once in a call, never both, and
\* neither in a call whose preConsumeQuota did not succeed; a release
\* hands back exactly the amount reserved.
C19_ReleaseXorSettle ==
    /\ nRelease <= 1
    /\ nSettle <= 1
    /\ nRelease + nSettle <= 1
    /\ nReserve <= 1
    /\ nReserve = 0 => (nRelease = 0 /\ nSettle = 0 /\ settle = "none" /\ released = 0)
    /\ bizErr # Nil => (nReserve = 0 /\ nRelease = 0 /\ nSettle = 0)
    /\ nRelease = 1 => (released = preConsumedQuota /\ settle = "none")
    /\ settle # "none" => (nSettle = 1 /\ nRelease = 0)

C19_Witness ==
    /\ pc = "done"
    /\ failedAt = "DoResponse"
    /\ nReserve = 1
    /\ nRelease = 1
    /\ nSettle = 0
    /\ preConsumedQuota > 0
    /\ balance = balance0
    /\ nWrites > 0
\* C20: when every collaborator call returns and the settlement goroutine
\* is scheduled, the call returns, and a call that returned nil has its
\* settlement run to its end.
C20_ReturnsAndSettles ==
    /\ <>(pc = "done")
    /\ []((pc = "done" /\ ret = Nil) => <>(settle \in {"done", "failed"}))

\* a streaming call that took and gave back the lock MaxWrites times
\* returned nil and its settlement ran
C20_Witness ==
    /\ isStream
    /\ nWrites = MaxWrites
    /\ pc = "done"
    /\ ret = Nil
    /\ settle = "done"
====
